---- MODULE Spec2Model ----
(***************************************************************************)
(* Model of .github/scripts/mcp_analyzer.py: the risk classifier           *)
(* (SubmoduleAnalyzer._analyze_risk_level), the submodule aggregator       *)
(* (analyze_submodules) and the PR body composer (_generate_pr_content).   *)
(*                                                                         *)
(* Python str values that the code searches, lower-cases or slices         *)
(* (commit messages, keywords, breaking patterns, revision ids) are        *)
(* sequences of one-character strings; names that are only compared or     *)
(* used as dictionary keys (submodule names, reviewers) are TLA+ strings.  *)
(* A Python dict is a function; a missing key is a missing domain element. *)
(***************************************************************************)
EXTENDS Integers, Sequences, FiniteSets, TLC

VARIABLES
    config,                 \* self.config
    commits,                \* _analyze_risk_level: parameter commits
    submodule_name,         \* _analyze_risk_level: parameter submodule_name
    idx,                    \* number of commits the for loop has consumed
    high_risk_count,        \* local of _analyze_risk_level
    medium_risk_count,      \* local of _analyze_risk_level
    has_breaking_changes,   \* local of _analyze_risk_level
    returned,               \* the tuples _analyze_risk_level has returned: none, or one
    submodules_data,        \* analyze_submodules: submodules_data["submodules"]
    pos,                    \* number of descriptors the for loop has consumed
    old_commits,            \* the local old_commit after line 288, one per consumed descriptor
    rev_list_calls,         \* the git rev-list commands issued so far: <<cwd, old, new>>
    submodule_analyses,     \* local of analyze_submodules
    total_commits,          \* local of analyze_submodules
    result                  \* the AnalysisResult returned: none, or one

classifierVars == <<commits, submodule_name, idx, high_risk_count,
                    medium_risk_count, has_breaking_changes, returned>>

aggregatorVars == <<submodules_data, pos, old_commits, rev_list_calls,
                    submodule_analyses, total_commits, result>>

vars == <<config, classifierVars, aggregatorVars>>

----------------------------------------------------------------------------
(* Bounds of the model *)

\* longest commit list handed to the classifier on its own
MaxCommits == 3

\* number of commits in a submodule's history
HistLen == 12

\* longest list of submodule descriptors
MaxSubs == 2

----------------------------------------------------------------------------
(* Program constants *)

\* commit_hashes[:10], "máximo 10 para performance"
MaterializeCap == 10

\* submodule.commits[:5] and the "more commits" arithmetic
ListedCap == 5

\* old_commit[:8], new_commit[:8], hash[:8]
ShortLen == 8

----------------------------------------------------------------------------
(* Python str and dict primitives *)

UpperChars == <<"A","B","C","D","E","F","G","H","I","J","K","L","M",
                "N","O","P","Q","R","S","T","U","V","W","X","Y","Z">>
LowerChars == <<"a","b","c","d","e","f","g","h","i","j","k","l","m",
                "n","o","p","q","r","s","t","u","v","w","x","y","z">>

\* the lower-case letter of every upper-case letter
LowerOf == [c \in {UpperChars[k] : k \in 1..Len(UpperChars)} |->
               LowerChars[CHOOSE k \in 1..Len(UpperChars) : UpperChars[k] = c]]

\* str.lower() on one character
LowerChar(c) == IF c \in DOMAIN LowerOf THEN LowerOf[c] ELSE c

\* str.lower()
Lower(s) == [k \in 1..Len(s) |-> LowerChar(s[k])]

\* Python's `sub in s` on str: sub occurs in s as a contiguous substring
Contains(sub, s) ==
    \E off \in 0..(Len(s) - Len(sub)) :
        \A j \in 1..Len(sub) : s[off + j] = sub[j]

\* dict.get(key, default)
Get(d, key, default) == IF key \in DOMAIN d THEN d[key] ELSE default

\* the empty dict {}
EmptyDict == <<>>

----------------------------------------------------------------------------
(* Configuration *)

\* the default of self.config.get("breaking_patterns", [...]) in the code
FallbackBreakingPatterns == << <<"B","R","E","A","K","I","N","G">>, <<"b","r","e","a","k","i","n","g",":">>, <<"!",":">> >>

\* _load_config: the built-in configuration used when no file is found
DefaultConfig ==
    [ submodules |-> EmptyDict,
      default_reviewers |-> <<"remr11">>,
      risk_keywords |->
        [ high   |-> << <<"s","e","c","u","r","i","t","y">>, <<"a","u","t","h">>, <<"d","a","t","a","b","a","s","e">>, <<"m","i","g","r","a","t","i","o","n">>, <<"b","r","e","a","k","i","n","g">> >>,
          medium |-> << <<"a","p","i">>, <<"c","o","n","f","i","g">>, <<"d","e","p","s">>, <<"d","e","p","e","n","d","e","n","c","y">>, <<"f","e","a","t","u","r","e">> >>,
          low    |-> << <<"d","o","c","s">>, <<"t","e","s","t">>, <<"s","t","y","l","e">>, <<"f","o","r","m","a","t">>, <<"r","e","f","a","c","t","o","r">> >> ],
      breaking_patterns |-> << <<"B","R","E","A","K","I","N","G">>, <<"b","r","e","a","k","i","n","g",":">>, <<"!",":">>, <<"f","e","a","t","!",":">> >> ]

\* _load_config: a configuration file, the one documented in __init__
FileConfig ==
    [ submodules |->
        [ n \in {"frontend-lib", "backend-api"} |->
            IF n = "frontend-lib"
            THEN [ reviewers |-> <<"frontend-team", "user1">>,
                   critical |-> TRUE,
                   breaking_change_patterns |-> << <<"B","R","E","A","K","I","N","G">>, <<"b","r","e","a","k","i","n","g",":">>, <<"!",":">> >> ]
            ELSE [ reviewers |-> <<"backend-team", "user2">>,
                   critical |-> TRUE,
                   breaking_change_patterns |-> << <<"B","R","E","A","K","I","N","G">>, <<"b","r","e","a","k","i","n","g",":">>, <<"f","e","a","t","!",":">> >> ] ],
      default_reviewers |-> <<"remr11">>,
      risk_keywords |->
        [ high   |-> << <<"s","e","c","u","r","i","t","y">>, <<"a","u","t","h">>, <<"d","a","t","a","b","a","s","e">>, <<"m","i","g","r","a","t","i","o","n">> >>,
          medium |-> << <<"a","p","i">>, <<"c","o","n","f","i","g">>, <<"d","e","p","s">>, <<"d","e","p","e","n","d","e","n","c","y">> >>,
          low    |-> << <<"d","o","c","s">>, <<"t","e","s","t">>, <<"s","t","y","l","e">>, <<"f","o","r","m","a","t">> >> ] ]

Configs == {DefaultConfig, FileConfig}

\* submodule names the runs use: two configured in FileConfig, one in neither
Names == {"frontend-lib", "backend-api", "docs-site"}

\* commit messages (the %s field of git show) the histories are built from
Messages ==
    { <<"f","e","a","t",":"," ","a","d","d"," ","w","i","d","g","e","t">>,
      <<"f","i","x",":"," ","c","r","a","s","h"," ","o","n"," ","l","o","a","d">>,
      <<"B","R","E","A","K","I","N","G",":"," ","d","r","o","p"," ","o","l","d"," ","A","P","I">>,
      <<"f","e","a","t","!",":"," ","u","p","d","a","t","e"," ","a","p","i">>,
      <<"u","p","d","a","t","e"," ","c","o","n","f","i","g">>,
      <<"F","i","x"," ","A","u","t","h"," ","t","o","k","e","n">>,
      <<"d","o","c","s",":"," ","t","y","p","o">>,
      <<"f","i","x","!",":"," ","b","u","m","p"," ","d","e","p","s">>,
      <<"s","e","c","u","r","i","t","y",":"," ","a","p","i"," ","p","a","t","c","h">> }

----------------------------------------------------------------------------
(* SubmoduleAnalyzer._analyze_risk_level *)

\* self.config.get("submodules", {}).get(submodule_name, {})
SubmoduleConfig(cfg, name) == Get(Get(cfg, "submodules", EmptyDict), name, EmptyDict)

\* submodule_config.get("critical", False)
IsCritical(cfg, name) == Get(SubmoduleConfig(cfg, name), "critical", FALSE)

\* submodule_config.get("breaking_change_patterns", self.config.get("breaking_patterns", [...]))
BreakingPatterns(cfg, name) ==
    Get(SubmoduleConfig(cfg, name), "breaking_change_patterns",
        Get(cfg, "breaking_patterns", FallbackBreakingPatterns))

\* risk_keywords.get(tier, [])
RiskKeywords(cfg, tier) == Get(Get(cfg, "risk_keywords", EmptyDict), tier, <<>>)

\* a breaking test that ignores the submodule's own breaking_change_patterns
MatchesBreaking_GlobalOnly(cfg, name, message_lower) ==
    LET patterns == Get(cfg, "breaking_patterns", FallbackBreakingPatterns)
    IN  \E k \in 1..Len(patterns) : Contains(Lower(patterns[k]), message_lower)

\* the loop `for pattern in breaking_patterns: if pattern.lower() in message_lower`
MatchesBreaking(cfg, name, message_lower) ==
    LET patterns == BreakingPatterns(cfg, name)
    IN  \E k \in 1..Len(patterns) : Contains(Lower(patterns[k]), message_lower)

\* the loop `for keyword in risk_keywords.get(tier, []): if keyword in message_lower`
MatchesKeyword(cfg, tier, message_lower) ==
    LET keywords == RiskKeywords(cfg, tier)
    IN  \E k \in 1..Len(keywords) : Contains(keywords[k], message_lower)

\* the substring tests the function makes on one commit message
MessageTests(cfg, name, message) ==
    LET message_lower == Lower(message)
    IN  [ breaking |-> MatchesBreaking(cfg, name, message_lower),
          high     |-> MatchesKeyword(cfg, "high", message_lower),
          medium   |-> MatchesKeyword(cfg, "medium", message_lower),
          feat     |-> Contains(<<"f","e","a","t">>, message_lower),
          fix      |-> Contains(<<"f","i","x">>, message_lower) ]

\* MessageTests of every configuration, submodule name and message of the model, computed once
Tests == [cfg \in Configs |-> [name \in Names |-> [message \in Messages \cup {<<"U","n","k","n","o","w","n">>} |->
             MessageTests(cfg, name, message)]]]

\* one iteration of `for commit in commits:` on the three locals
ScanCommit(st, commit, cfg, name) ==
    LET tests == Tests[cfg][name][commit.message]
        brk   == tests.breaking
        high  == tests.high
        med   == tests.medium
        \* breaking loop: sets the flag, counts one, leaves that loop only
        afterBreaking == st.high_risk_count + (IF brk THEN 1 ELSE 0)
    IN  [ has_breaking_changes |-> st.has_breaking_changes \/ brk,
          \* keyword loops run for every commit; for/else: medium only when no high keyword
          high_risk_count      |-> afterBreaking + (IF high THEN 1 ELSE 0),
          medium_risk_count    |-> st.medium_risk_count + (IF ~high /\ med THEN 1 ELSE 0) ]

\* a risk level that forgets the critical flag
RiskLevel_NoCritical(st, is_critical) ==
    IF st.has_breaking_changes \/ st.high_risk_count > 0 THEN "high"
    ELSE IF st.medium_risk_count > 2 THEN "medium"
    ELSE "low"

\* "Determinar nivel de riesgo"
RiskLevel(st, is_critical) ==
    IF st.has_breaking_changes \/ st.high_risk_count > 0 THEN "high"
    ELSE IF st.medium_risk_count > 2 \/ (st.medium_risk_count > 0 /\ is_critical) THEN "medium"
    ELSE "low"

\* a change type that looks for "fix" before "feat"
ChangeType_FixFirst(st, cs, cfg, name) ==
    IF st.has_breaking_changes THEN "breaking"
    ELSE IF \E k \in 1..Len(cs) : Tests[cfg][name][cs[k].message].fix THEN "bugfix"
    ELSE IF \E k \in 1..Len(cs) : Tests[cfg][name][cs[k].message].feat THEN "feature"
    ELSE "maintenance"

\* "Determinar tipo de cambio"
ChangeType(st, cs, cfg, name) ==
    IF st.has_breaking_changes THEN "breaking"
    ELSE IF \E k \in 1..Len(cs) : Tests[cfg][name][cs[k].message].feat THEN "feature"
    ELSE IF \E k \in 1..Len(cs) : Tests[cfg][name][cs[k].message].fix THEN "bugfix"
    ELSE "maintenance"

\* the locals before the loop
ScanStart == [ has_breaking_changes |-> FALSE, high_risk_count |-> 0, medium_risk_count |-> 0 ]

RECURSIVE ScanAll(_, _, _, _)
\* the whole for loop, from the locals st
ScanAll(st, cs, cfg, name) ==
    IF cs = <<>> THEN st
    ELSE ScanAll(ScanCommit(st, Head(cs), cfg, name), Tail(cs), cfg, name)

\* the returned tuple (risk_level, change_type, has_breaking_changes)
ReturnTuple(st, cs, cfg, name) ==
    [ risk_level |-> RiskLevel(st, IsCritical(cfg, name)),
      change_type |-> ChangeType(st, cs, cfg, name),
      breaking_changes |-> st.has_breaking_changes ]

\* _analyze_risk_level as one call
analyze_risk_level(cs, name, cfg) == ReturnTuple(ScanAll(ScanStart, cs, cfg, name), cs, cfg, name)

----------------------------------------------------------------------------
(* The classifier run commit by commit *)

\* CommitInfo values with the given messages
CommitOf(message) == [ hash |-> <<"a","1","b","2","c","3","d","4">>, message |-> message, author |-> <<"d","e","v">> ]

CommitLists == UNION { [1..n -> {CommitOf(m) : m \in Messages}] : n \in 0..MaxCommits }

Locals == [ has_breaking_changes |-> has_breaking_changes,
            high_risk_count |-> high_risk_count,
            medium_risk_count |-> medium_risk_count ]

InitClassify ==
    /\ config \in Configs
    /\ submodule_name \in Names
    /\ commits \in CommitLists
    /\ idx = 0
    /\ high_risk_count = 0
    /\ medium_risk_count = 0
    /\ has_breaking_changes = FALSE
    /\ returned = <<>>
    /\ submodules_data = <<>>
    /\ pos = 0
    /\ old_commits = <<>>
    /\ rev_list_calls = <<>>
    /\ submodule_analyses = <<>>
    /\ total_commits = 0
    /\ result = <<>>

\* one iteration of the for loop of _analyze_risk_level
ScanStep ==
    /\ returned = <<>>
    /\ idx < Len(commits)
    /\ LET st == ScanCommit(Locals, commits[idx + 1], config, submodule_name)
       IN  /\ high_risk_count' = st.high_risk_count
           /\ medium_risk_count' = st.medium_risk_count
           /\ has_breaking_changes' = st.has_breaking_changes
    /\ idx' = idx + 1
    /\ UNCHANGED <<config, commits, submodule_name, returned, aggregatorVars>>

\* the code after the loop, up to the return
Return ==
    /\ returned = <<>>
    /\ idx = Len(commits)
    /\ returned' = <<ReturnTuple(Locals, commits, config, submodule_name)>>
    /\ UNCHANGED <<config, commits, submodule_name, idx, high_risk_count,
                   medium_risk_count, has_breaking_changes, aggregatorVars>>

NextClassify == ScanStep \/ Return

SpecClassify == InitClassify /\ [][NextClassify]_vars

----------------------------------------------------------------------------
(* The git repositories the analyzer shells out to *)

Digits == <<"0","1","2","3","4","5","6","7","8","9">>

\* the commit id of the k-th commit of a history (k = 0: the commit the history starts from)
Hash(k) == <<"a","1","b","2","c","3", Digits[((k \div 10) % 10) + 1], Digits[(k % 10) + 1], "e","f">>

\* Python's s[:n]
Take(s, n) == SubSeq(s, 1, IF Len(s) < n THEN Len(s) ELSE n)

FrontendPath == <<"libs", "frontend-lib">>
DocsPath     == <<"docs-site">>
GonePath     == <<"gone", "backend-api">>

\* the directories for which Path(cwd).exists()
ExistingPaths == {FrontendPath, DocsPath}

FrontendStory ==
    << <<"f","e","a","t",":"," ","a","d","d"," ","w","i","d","g","e","t">>, <<"f","i","x",":"," ","c","r","a","s","h"," ","o","n"," ","l","o","a","d">>, <<"u","p","d","a","t","e"," ","c","o","n","f","i","g">>, <<"d","o","c","s",":"," ","t","y","p","o">>,
       <<"u","p","d","a","t","e"," ","c","o","n","f","i","g">>, <<"d","o","c","s",":"," ","t","y","p","o">>, <<"F","i","x"," ","A","u","t","h"," ","t","o","k","e","n">>, <<"f","e","a","t","!",":"," ","u","p","d","a","t","e"," ","a","p","i">>,
       <<"d","o","c","s",":"," ","t","y","p","o">>, <<"f","i","x",":"," ","c","r","a","s","h"," ","o","n"," ","l","o","a","d">>, <<"B","R","E","A","K","I","N","G",":"," ","d","r","o","p"," ","o","l","d"," ","A","P","I">>, <<"s","e","c","u","r","i","t","y",":"," ","a","p","i"," ","p","a","t","c","h">> >>

DocsStory ==
    << <<"u","p","d","a","t","e"," ","c","o","n","f","i","g">>, <<"u","p","d","a","t","e"," ","c","o","n","f","i","g">>, <<"u","p","d","a","t","e"," ","c","o","n","f","i","g">>, <<"d","o","c","s",":"," ","t","y","p","o">>,
       <<"d","o","c","s",":"," ","t","y","p","o">>, <<"d","o","c","s",":"," ","t","y","p","o">>, <<"F","i","x"," ","A","u","t","h"," ","t","o","k","e","n">>, <<"d","o","c","s",":"," ","t","y","p","o">>,
       <<"f","i","x",":"," ","c","r","a","s","h"," ","o","n"," ","l","o","a","d">>, <<"d","o","c","s",":"," ","t","y","p","o">>, <<"d","o","c","s",":"," ","t","y","p","o">>, <<"d","o","c","s",":"," ","t","y","p","o">> >>

\* the subject lines of the commits 1..HistLen of the repository at cwd, oldest first
History(cwd) ==
    LET story == IF cwd = FrontendPath THEN FrontendStory ELSE DocsStory
    IN  [k \in 1..HistLen |-> story[((k - 1) % Len(story)) + 1]]

\* the position of a revision id in the history, -1 when git does not know it
RevIndex(rev) ==
    IF \E k \in 0..HistLen : Hash(k) = rev
    THEN CHOOSE k \in 0..HistLen : Hash(k) = rev
    ELSE -1

\* _run_git_command(['git','rev-parse','HEAD@{1}'], cwd): the possible outputs;
\* "" when the directory is missing or git fails (no reflog entry)
PrevHeadOutcomes(cwd) ==
    IF cwd \in ExistingPaths THEN {<<>>, Hash(0), Hash(4)} ELSE {<<>>}

\* _run_git_command(['git','rev-list','--reverse', old..new], cwd): the output
\* lines, oldest commit first; no line when the directory is missing, git fails
\* or the range is empty
GitRevList(cwd, old, new) ==
    IF cwd \notin ExistingPaths \/ RevIndex(old) < 0 \/ RevIndex(new) < 0 THEN <<>>
    ELSE [k \in 1..(IF RevIndex(new) > RevIndex(old) THEN RevIndex(new) - RevIndex(old) ELSE 0)
             |-> Hash(RevIndex(old) + k)]

\* _run_git_command(['git','show','--format=%H|%s|%an|%ai','-s', hash], cwd) split at '|';
\* no field when the command fails
GitShowHeader(commit_hash, cwd) ==
    IF cwd \in ExistingPaths /\ RevIndex(commit_hash) >= 1
    THEN << commit_hash, History(cwd)[RevIndex(commit_hash)], <<"d","e","v">>, <<"2","0","2","4","-","0","1","-","0","1">> >>
    ELSE <<>>

\* str.split('\n') of an output given by its lines: "" splits into one empty string
SplitLines(lines) == IF lines = <<>> THEN << <<>> >> ELSE lines

\* `c.strip()` is truthy (rev-list lines carry no white space)
NonBlank(line) == line # <<>>

----------------------------------------------------------------------------
(* SubmoduleAnalyzer._get_commit_info; date and files_changed are not modelled *)

get_commit_info(commit_hash, repo_path) ==
    LET header_parts == GitShowHeader(commit_hash, repo_path)
    IN  IF Len(header_parts) >= 4
        THEN [ hash |-> Take(header_parts[1], ShortLen),
               message |-> header_parts[2],
               author |-> header_parts[3] ]
        ELSE [ hash |-> Take(commit_hash, ShortLen), message |-> <<"U","n","k","n","o","w","n">>, author |-> <<"U","n","k","n","o","w","n">> ]

----------------------------------------------------------------------------
(* SubmoduleAnalyzer.analyze_submodules: one iteration of the loop *)

\* Path(path).name
PathName(path) == path[Len(path)]

\* `not old_commit or old_commit == "unknown"`
NeedsLookup(old_commit) == old_commit = <<>> \/ old_commit = <<"u","n","k","n","o","w","n">>

\* a range test that queries also when both revisions are the same
NeedsRangeQuery_Always(old_commit, new_commit) == old_commit # <<>>

\* `old_commit and old_commit != new_commit`
NeedsRangeQuery(old_commit, new_commit) == old_commit # <<>> /\ old_commit # new_commit

\* a count taken from the truncated list
CommitsCount_Materialized(commit_hashes) ==
    Len(SelectSeq(Take(commit_hashes, MaterializeCap), NonBlank))

\* len([c for c in commit_hashes if c.strip()])
CommitsCount(commit_hashes) == Len(SelectSeq(commit_hashes, NonBlank))

\* the loop over commit_hashes[:10] that fills commits
Materialize(commit_hashes, path) ==
    LET firsts == SelectSeq(Take(commit_hashes, MaterializeCap), NonBlank)
    IN  [k \in 1..Len(firsts) |-> get_commit_info(firsts[k], path)]

\* lines 290-330: the SubmoduleAnalysis built for a descriptor whose old_commit is resolved
Analysis(info, old_commit, cfg) ==
    LET path           == info.path
        new_commit     == info.new_commit
        name           == PathName(path)
        query          == NeedsRangeQuery(old_commit, new_commit)
        commit_hashes  == SplitLines(GitRevList(path, old_commit, new_commit))
        cs             == IF query THEN Materialize(commit_hashes, path) ELSE <<>>
        r              == analyze_risk_level(cs, name, cfg)
    IN  [ name |-> name,
          path |-> path,
          old_commit |-> IF old_commit # <<>> THEN Take(old_commit, ShortLen) ELSE <<"u","n","k","n","o","w","n">>,
          new_commit |-> Take(new_commit, ShortLen),
          commits_count |-> IF query THEN CommitsCount(commit_hashes) ELSE 0,
          commits |-> cs,
          risk_level |-> r.risk_level,
          change_type |-> r.change_type,
          breaking_changes |-> r.breaking_changes,
          suggested_reviewers |-> Get(SubmoduleConfig(cfg, name), "reviewers", <<>>) ]

\* an iteration that does not skip
NextAnalyses_NoSkip(analyses, old_commit, analysis) == Append(analyses, analysis)

\* lines 287-288 and 332: `continue` when the lookup gave nothing, else append
NextAnalyses(analyses, old_commit, analysis) ==
    IF old_commit = <<>> THEN analyses ELSE Append(analyses, analysis)

\* lines 287-288 and 333: total_commits += commits_count, unless skipped
NextTotal(total, old_commit, analysis) ==
    IF old_commit = <<>> THEN total ELSE total + analysis.commits_count

----------------------------------------------------------------------------
(* analyze_submodules after the loop, _get_suggested_reviewers, _generate_pr_content *)

\* an overall risk without the medium branch
OverallRisk_NoMedium(analyses) ==
    IF \E k \in 1..Len(analyses) : analyses[k].breaking_changes THEN "high"
    ELSE IF \E k \in 1..Len(analyses) : analyses[k].risk_level = "high" THEN "high"
    ELSE "low"

\* "Calcular riesgo general"
OverallRisk(analyses) ==
    IF \E k \in 1..Len(analyses) : analyses[k].breaking_changes THEN "high"
    ELSE IF \E k \in 1..Len(analyses) : analyses[k].risk_level = "high" THEN "high"
    ELSE IF \E k \in 1..Len(analyses) : analyses[k].risk_level = "medium" THEN "medium"
    ELSE "low"

\* "Generar resumen": the numbers and the variant of the summary sentence
Summary(analyses, total) ==
    LET breaking_count == Cardinality({k \in 1..Len(analyses) : analyses[k].breaking_changes})
    IN  [ alarm |-> breaking_count > 0,
          submodules |-> Len(analyses),
          total_commits |-> total,
          breaking_count |-> breaking_count ]

\* the elements of a Python list
Elems(list) == {list[k] : k \in 1..Len(list)}

\* _get_suggested_reviewers: list(set(...)), order unspecified, as a set
get_suggested_reviewers(analyses, cfg) ==
    Elems(Get(cfg, "default_reviewers", <<>>))
        \cup UNION { Elems(Get(SubmoduleConfig(cfg, analyses[k].name), "reviewers", <<>>)) :
                        k \in 1..Len(analyses) }

RiskEmoji   == [ high |-> "red", medium |-> "yellow", low |-> "green" ]
ChangeEmoji == [ breaking |-> "boom", feature |-> "sparkles", bugfix |-> "bug", maintenance |-> "wrench" ]
RiskUpper   == [ high |-> "HIGH", medium |-> "MEDIUM", low |-> "LOW" ]
ChangeTitle == [ breaking |-> "Breaking", feature |-> "Feature", bugfix |-> "Bugfix",
                 maintenance |-> "Maintenance" ]

\* _generate_pr_content: the title
PrTitle(res) ==
    IF Len(res.submodules) = 1
    THEN [ update |-> res.submodules[1].name,
           commits |-> res.submodules[1].commits_count,
           breaking |-> res.submodules[1].breaking_changes ]
    ELSE [ update |-> Len(res.submodules),
           commits |-> res.total_commits,
           breaking |-> \E k \in 1..Len(res.submodules) : res.submodules[k].breaking_changes ]

\* _generate_pr_content: the lines of one submodule's block
PrBlock(submodule) ==
    [ heading     |-> <<ChangeEmoji[submodule.change_type], submodule.name>>,
      risk_line   |-> <<RiskEmoji[submodule.risk_level], RiskUpper[submodule.risk_level]>>,
      change_line |-> ChangeTitle[submodule.change_type],
      commits_line |-> submodule.commits_count,
      from_to     |-> <<submodule.old_commit, submodule.new_commit>>,
      breaking_callout |-> submodule.breaking_changes,
      \* for commit in submodule.commits[:5]
      recent      |-> Take(submodule.commits, ListedCap),
      \* "... and N more commits": the N of the note, when the note is there
      more        |-> IF Len(submodule.commits) > ListedCap
                      THEN <<Len(submodule.commits) - ListedCap>> ELSE <<>> ]

\* _generate_pr_content: the body
PrBody(res) ==
    [ summary |-> res.summary,
      blocks |-> [k \in 1..Len(res.submodules) |-> PrBlock(res.submodules[k])],
      critical_checklist |-> \E k \in 1..Len(res.submodules) : res.submodules[k].breaking_changes ]

\* lines 335-370: the AnalysisResult
Compose(analyses, total, cfg) ==
    LET res == [ summary |-> Summary(analyses, total),
                 submodules |-> analyses,
                 total_commits |-> total,
                 overall_risk |-> OverallRisk(analyses),
                 suggested_reviewers |-> get_suggested_reviewers(analyses, cfg) ]
    IN  [ summary |-> res.summary,
          submodules |-> res.submodules,
          total_commits |-> res.total_commits,
          overall_risk |-> res.overall_risk,
          suggested_reviewers |-> res.suggested_reviewers,
          pr_title |-> PrTitle(res),
          pr_body |-> PrBody(res) ]

----------------------------------------------------------------------------
(* analyze_submodules as a state machine *)

\* revisions the descriptors name
NewRevs == {Hash(4), Hash(HistLen)}
GivenOlds == {<<"u","n","k","n","o","w","n">>, Hash(4)}

\* submodule descriptors, with and without the optional old_commit
Descriptors ==
    { [path |-> p, new_commit |-> n] : p \in {FrontendPath, DocsPath, GonePath}, n \in NewRevs }
    \cup { [path |-> p, new_commit |-> n, old_commit |-> o] :
              p \in {FrontendPath, DocsPath, GonePath}, n \in NewRevs, o \in GivenOlds }

Init ==
    /\ config \in Configs
    /\ submodules_data \in UNION { [1..n -> Descriptors] : n \in 0..MaxSubs }
    /\ pos = 0
    /\ old_commits = <<>>
    /\ rev_list_calls = <<>>
    /\ submodule_analyses = <<>>
    /\ total_commits = 0
    /\ result = <<>>
    /\ commits = <<>>
    /\ submodule_name = ""
    /\ idx = 0
    /\ high_risk_count = 0
    /\ medium_risk_count = 0
    /\ has_breaking_changes = FALSE
    /\ returned = <<>>

\* one iteration of `for submodule_info in submodules_data.get("submodules", [])`
ProcessSubmodule ==
    /\ result = <<>>
    /\ pos < Len(submodules_data)
    /\ LET info  == submodules_data[pos + 1]
           given == Get(info, "old_commit", <<>>)
       IN  \E old_commit \in (IF NeedsLookup(given) THEN PrevHeadOutcomes(info.path) ELSE {given}) :
              LET a == Analysis(info, old_commit, config)
              IN  /\ old_commits' = Append(old_commits, old_commit)
                  /\ submodule_analyses' = NextAnalyses(submodule_analyses, old_commit, a)
                  /\ total_commits' = NextTotal(total_commits, old_commit, a)
                  /\ rev_list_calls' =
                        IF NeedsRangeQuery(old_commit, info.new_commit)
                        THEN Append(rev_list_calls, <<info.path, old_commit, info.new_commit>>)
                        ELSE rev_list_calls
    /\ pos' = pos + 1
    /\ UNCHANGED <<config, classifierVars, submodules_data, result>>

\* the code after the loop: overall risk, summary, reviewers, PR content, return
Finish ==
    /\ result = <<>>
    /\ pos = Len(submodules_data)
    /\ result' = <<Compose(submodule_analyses, total_commits, config)>>
    /\ UNCHANGED <<config, classifierVars, submodules_data, pos, old_commits,
                   rev_list_calls, submodule_analyses, total_commits>>

Next == ProcessSubmodule \/ Finish

Spec == Init /\ [][Next]_vars

----------------------------------------------------------------------------
(* Properties of the classifier, stated on the inputs and the returned tuple *)

\* the breaking markers that apply to a submodule: its own when configured, else the global ones
MarkersOf(cfg, name) ==
    IF name \in DOMAIN cfg.submodules /\ "breaking_change_patterns" \in DOMAIN cfg.submodules[name]
    THEN cfg.submodules[name].breaking_change_patterns
    ELSE IF "breaking_patterns" \in DOMAIN cfg THEN cfg.breaking_patterns
    ELSE FallbackBreakingPatterns

\* the message of commit c contains one of the submodule's markers, letter case ignored
HasMarker(c) ==
    \E k \in 1..Len(MarkersOf(config, submodule_name)) :
        Contains(Lower(MarkersOf(config, submodule_name)[k]), Lower(c.message))

\* the message of commit c contains a keyword of the tier
HasKeyword(c, tier) ==
    \E k \in 1..Len(config.risk_keywords[tier]) :
        Contains(config.risk_keywords[tier][k], Lower(c.message))

\* the message of commit c contains the word, letter case ignored
HasWord(c, word) == Contains(word, Lower(c.message))

MarkedCritical ==
    /\ submodule_name \in DOMAIN config.submodules
    /\ config.submodules[submodule_name].critical

Returned == returned # <<>>

\* C2: breakingFlag is true exactly when some commit message contains one of the
\* submodule's breaking markers (its override when configured, else the global
\* list, case-insensitively), and a true breakingFlag comes with riskLevel "high".
C2_BreakingFlagIffMarker ==
    Returned =>
        /\ returned[1].breaking_changes <=> (\E k \in 1..Len(commits) : HasMarker(commits[k]))
        /\ returned[1].breaking_changes => returned[1].risk_level = "high"

\* a breaking result whose marker commit matches a medium keyword and no high
\* keyword, next to a commit that matches no marker at all
C2_Witness ==
    /\ Returned
    /\ returned[1].breaking_changes
    /\ \E k \in 1..Len(commits) :
          HasMarker(commits[k]) /\ HasKeyword(commits[k], "medium") /\ ~HasKeyword(commits[k], "high")
    /\ \E k \in 1..Len(commits) : ~HasMarker(commits[k]) /\ HasKeyword(commits[k], "low")

NoBreakingOrHigh ==
    \A k \in 1..Len(commits) : ~HasMarker(commits[k]) /\ ~HasKeyword(commits[k], "high")

MediumCommits == Cardinality({k \in 1..Len(commits) : HasKeyword(commits[k], "medium")})

\* C5: with no commit matching a breaking marker or a high keyword, the risk
\* level is "medium" exactly when more than 2 commits match a medium keyword, or
\* at least 1 does and the submodule is marked critical; otherwise it is "low".
C5_MediumEscalation ==
    (Returned /\ NoBreakingOrHigh) =>
        returned[1].risk_level =
            IF MediumCommits > 2 \/ (MediumCommits >= 1 /\ MarkedCritical) THEN "medium" ELSE "low"

\* one medium-keyword commit of a critical submodule came out "medium"
C5_Witness ==
    /\ Returned
    /\ NoBreakingOrHigh
    /\ MediumCommits = 1
    /\ MarkedCritical
    /\ returned[1].risk_level = "medium"

\* C7: the change type is "breaking" exactly when breakingFlag is true; otherwise
\* "feature" if any message contains "feat", otherwise "bugfix" if any contains
\* "fix", otherwise "maintenance": a precedence over the whole list.
C7_ChangeTypePrecedence ==
    Returned =>
        /\ returned[1].change_type = "breaking" <=> returned[1].breaking_changes
        /\ ~returned[1].breaking_changes =>
              returned[1].change_type =
                  IF \E k \in 1..Len(commits) : HasWord(commits[k], <<"f","e","a","t">>) THEN "feature"
                  ELSE IF \E k \in 1..Len(commits) : HasWord(commits[k], <<"f","i","x">>) THEN "bugfix"
                  ELSE "maintenance"

\* a "fix" commit comes before a "feat" commit, no commit matches a marker or a
\* high or medium keyword, and the list came out "feature"
C7_Witness ==
    /\ Returned
    /\ ~returned[1].breaking_changes
    /\ \E j, k \in 1..Len(commits) :
          /\ j < k
          /\ HasWord(commits[j], <<"f","i","x">>) /\ ~HasWord(commits[j], <<"f","e","a","t">>)
          /\ HasWord(commits[k], <<"f","e","a","t">>)
    /\ \A k \in 1..Len(commits) :
          ~HasKeyword(commits[k], "high") /\ ~HasKeyword(commits[k], "medium")
    /\ returned[1].change_type = "feature"

\* C10: every scanned commit adds at most one increment to the two counters
\* together; a commit with a breaking marker adds exactly 1 to the high-risk
\* counter and 0 to the medium-risk counter; a commit without marker but with a
\* high keyword does the same; no commit adds to both counters.
C10_OneIncrementPerCommit ==
    [][ idx' = idx + 1 =>
          LET c  == commits[idx + 1]
              dh == high_risk_count' - high_risk_count
              dm == medium_risk_count' - medium_risk_count
          IN  /\ dh + dm <= 1
              /\ HasMarker(c) => (dh = 1 /\ dm = 0)
              /\ (~HasMarker(c) /\ HasKeyword(c, "high")) => (dh = 1 /\ dm = 0)
              /\ ~(dh > 0 /\ dm > 0)
      ]_vars

----------------------------------------------------------------------------
(* Properties of analyze_submodules, stated on the input, the histories and the result *)

Done == result # <<>>

\* the descriptor's own old_commit, "" when the key is missing
GivenOld(k) ==
    IF "old_commit" \in DOMAIN submodules_data[k] THEN submodules_data[k].old_commit ELSE <<>>

\* descriptor k had no old_commit and the previous-revision lookup returned nothing
Unresolvable(k) ==
    /\ GivenOld(k) \in {<<>>, <<"u","n","k","n","o","w","n">>}
    /\ old_commits[k] = <<>>

\* the consumed descriptors that are not unresolvable, in input order
KeptIdx == SelectSeq([k \in 1..pos |-> k], LAMBDA k : ~Unresolvable(k))

\* the number of commits after old up to new in the history at path; none when
\* the directory is missing or a revision is unknown
RangeSize(path, old, new) ==
    IF path \in ExistingPaths /\ RevIndex(old) >= 0 /\ RevIndex(new) >= 0
    THEN Cardinality({c \in 1..HistLen : RevIndex(old) < c /\ c <= RevIndex(new)})
    ELSE 0

\* the same for the consumed descriptor k, from the old revision it was resolved to
RangeSizeOf(k) == RangeSize(submodules_data[k].path, old_commits[k], submodules_data[k].new_commit)

RECURSIVE SumCounts(_)
SumCounts(analyses) ==
    IF analyses = <<>> THEN 0 ELSE Head(analyses).commits_count + SumCounts(Tail(analyses))

\* C1: in the result, total_commits is the sum of commits_count over the returned
\* submodules, and each commits_count is the number of commits of the range
\* old..new, also when more than 10 commits are in the range.
C1_TotalIsSumOfTrueCounts ==
    Done =>
        /\ result[1].total_commits = SumCounts(result[1].submodules)
        /\ Len(result[1].submodules) = Len(KeptIdx)
        /\ \A j \in 1..Len(result[1].submodules) :
              result[1].submodules[j].commits_count = RangeSizeOf(KeptIdx[j])

\* two submodules returned, one with more commits than are materialized
C1_Witness ==
    /\ Done
    /\ Len(result[1].submodules) = 2
    /\ \E j \in 1..2 :
          /\ result[1].submodules[j].commits_count > MaterializeCap
          /\ Len(result[1].submodules[j].commits) = MaterializeCap
    /\ \E j \in 1..2 :
          /\ result[1].submodules[j].commits_count > 0
          /\ result[1].submodules[j].commits_count <= MaterializeCap

Severity == [ low |-> 0, medium |-> 1, high |-> 2 ]

\* the severity a returned submodule asks for: high when it is breaking
SeverityOf(submodule) ==
    IF submodule.breaking_changes THEN Severity.high ELSE Severity[submodule.risk_level]

\* C3: overall_risk is the maximum severity over the returned submodules, a
\* breaking submodule counting as high, and "low" when none is returned.
C3_OverallRiskIsMaximum ==
    Done =>
        LET subs == result[1].submodules
            sevs == {SeverityOf(subs[j]) : j \in 1..Len(subs)} \cup {Severity.low}
        IN  /\ Severity[result[1].overall_risk] \in sevs
            /\ \A v \in sevs : v <= Severity[result[1].overall_risk]

\* a low and a medium submodule, none high or breaking, gave "medium"
C3_Witness ==
    /\ Done
    /\ Len(result[1].submodules) = 2
    /\ \E j \in 1..2 : result[1].submodules[j].risk_level = "low"
    /\ \E j \in 1..2 : result[1].submodules[j].risk_level = "medium"
    /\ \A j \in 1..2 : ~result[1].submodules[j].breaking_changes
    /\ result[1].overall_risk = "medium"

\* the reviewers configured for a submodule name
ReviewersOf(name) ==
    IF name \in DOMAIN config.submodules
    THEN {config.submodules[name].reviewers[r] : r \in 1..Len(config.submodules[name].reviewers)}
    ELSE {}

\* C4: a descriptor without old_commit whose lookup returns nothing is skipped:
\* the returned submodules are exactly the other descriptors, in input order,
\* total_commits counts only their ranges, and the reviewers are the default
\* ones and those of the other descriptors' submodules.
C4_UnresolvableIsSkipped ==
    Done =>
        /\ Len(result[1].submodules) = Len(KeptIdx)
        /\ \A j \in 1..Len(KeptIdx) :
              /\ j <= Len(result[1].submodules)
              /\ result[1].submodules[j].path = submodules_data[KeptIdx[j]].path
              /\ result[1].submodules[j].new_commit =
                    SubSeq(submodules_data[KeptIdx[j]].new_commit, 1, ShortLen)
        /\ result[1].total_commits =
              SumCounts([j \in 1..Len(KeptIdx) |-> [commits_count |-> RangeSizeOf(KeptIdx[j])]])
        /\ result[1].suggested_reviewers =
              {config.default_reviewers[r] : r \in 1..Len(config.default_reviewers)}
                 \cup UNION { ReviewersOf(submodules_data[KeptIdx[j]].path[Len(submodules_data[KeptIdx[j]].path)]) :
                                 j \in 1..Len(KeptIdx) }

\* the first descriptor, of a submodule with reviewers, was skipped and the
\* second one was analysed with commits
C4_Witness ==
    /\ Done
    /\ pos = 2
    /\ Unresolvable(1)
    /\ ReviewersOf(submodules_data[1].path[Len(submodules_data[1].path)]) # {}
    /\ ~Unresolvable(2)
    /\ Len(result[1].submodules) = 1
    /\ result[1].submodules[1].path = submodules_data[2].path
    /\ result[1].total_commits > 0

\* the returned submodule of the kept descriptor k
ReturnedFor(k) == result[1].submodules[Cardinality({i \in 1..k : ~Unresolvable(i)})]

\* C6: a descriptor whose old revision, given or looked up, equals its new
\* revision causes no rev-list query and is returned with commits_count 0, no
\* commits, risk "low", change type "maintenance" and no breaking changes.
C6_SameRevisionIsZeroCommits ==
    /\ \A c \in 1..Len(rev_list_calls) : rev_list_calls[c][2] # rev_list_calls[c][3]
    /\ Done =>
          \A k \in 1..pos :
              old_commits[k] = submodules_data[k].new_commit =>
                  /\ ~Unresolvable(k)
                  /\ ReturnedFor(k).path = submodules_data[k].path
                  /\ ReturnedFor(k).commits_count = 0
                  /\ ReturnedFor(k).commits = <<>>
                  /\ ReturnedFor(k).risk_level = "low"
                  /\ ReturnedFor(k).change_type = "maintenance"
                  /\ ReturnedFor(k).breaking_changes = FALSE

\* a submodule the policy marks critical, whose looked-up old revision equals
\* the new one, was returned
C6_Witness ==
    /\ Done
    /\ \E k \in 1..pos :
          /\ GivenOld(k) = <<>>
          /\ old_commits[k] = submodules_data[k].new_commit
          /\ ReturnedFor(k).name \in DOMAIN config.submodules
          /\ config.submodules[ReturnedFor(k).name].critical
          /\ ReturnedFor(k).commits_count = 0

\* the short ids of the n most recent commits up to the revision new, oldest first
MostRecent(new, n) == [c \in 1..n |-> SubSeq(Hash(RevIndex(new) - n + c), 1, ShortLen)]

\* C8: each block of the PR body lists at most 5 commits, and for a range of
\* more than 5 commits these are the 5 most recent commits of the range.
C8_ListsMostRecent ==
    Done =>
        \A j \in 1..Len(result[1].pr_body.blocks) :
            LET block == result[1].pr_body.blocks[j]
            IN  /\ Len(block.recent) <= ListedCap
                /\ RangeSizeOf(KeptIdx[j]) > ListedCap =>
                      [c \in 1..Len(block.recent) |-> block.recent[c].hash]
                          = MostRecent(submodules_data[KeptIdx[j]].new_commit, ListedCap)

\* C9: a block carries the "N more commits" note exactly when the submodule has
\* more commits than the block lists, and N is the Commits line's value minus
\* the number of listed commits.
C9_MoreNoteCountsUnlisted ==
    Done =>
        \A j \in 1..Len(result[1].pr_body.blocks) :
            LET block == result[1].pr_body.blocks[j]
            IN  /\ block.more # <<>> <=> block.commits_line > Len(block.recent)
                /\ block.more # <<>> => block.more[1] = block.commits_line - Len(block.recent)

====
